---- MODULE Spec2Model ----
(***************************************************************************)
(* Model of the circuit breaker of src/circuitbreaker.ts (class            *)
(* CircuitBreaker) together with the callers of fire() and a stub guarded  *)
(* operation that counts its invocations.                                  *)
(*                                                                         *)
(* fire() is an async function: the admission test and the invocation of   *)
(* the guarded operation happen synchronously when fire() is called; the   *)
(* outcome handlers success()/fail() run later, when the promise of the    *)
(* guarded operation settles.  Between the two, time may pass and other    *)
(* calls may be fired or settled.  Every synchronous block is one action.  *)
(* The handlers use nothing of a call but its outcome, so the calls in     *)
(* flight are a number.                                                    *)
(* history is the log of the outcomes reported: whether the call succeeded, *)
(* the instant of the report and the timer the handler started.            *)
(* A handler runs within one reading of the clock: the instants it reads   *)
(* with Date.now() are the same instant, now.                              *)
(***************************************************************************)
EXTENDS Integers, Sequences, FiniteSets, TLC

VARIABLES options, state, openDateEnd, halfDateEnd, failCount, successCount,
          now, pending, invocations, lastReturn, history

vars == <<options, state, openDateEnd, halfDateEnd, failCount, successCount,
          now, pending, invocations, lastReturn, history>>

breakerVars == <<options, state, openDateEnd, halfDateEnd, failCount, successCount>>

(***************************************************************************)
(* Bounds of the model.                                                    *)
(***************************************************************************)
MaxTime == 6
MaxCalls == 5
MaxInFlight == 2

(***************************************************************************)
(* enum State                                                              *)
(***************************************************************************)
OPENED == "OPENED"
CLOSED == "CLOSED"
HALF == "HALF"
State == {OPENED, CLOSED, HALF}

(***************************************************************************)
(* number | undefined: an optional number is a record, so that undefined   *)
(* is distinct from every number.                                          *)
(***************************************************************************)
Undefined == [def |-> FALSE, val |-> 0]
Num(n) == [def |-> TRUE, val |-> n]

(* x || d on an optional number: undefined and 0 are falsy. *)
OrDefault(x, d) == IF x.def /\ x.val # 0 THEN x.val ELSE d

(* Date.now() < d, Date.now() >= d, Date.now() > d: every comparison of a   *)
(* number with undefined is false.                                         *)
Lt(t, d) == d.def /\ t < d.val
Ge(t, d) == d.def /\ t >= d.val
Gt(t, d) == d.def /\ t > d.val

(* new Date(d || 0): the instant shown by getInfo. *)
DateOf(d) == OrDefault(d, 0)

(***************************************************************************)
(* Defaults of the constructor.                                            *)
(***************************************************************************)
DefaultHalfTimeout == 10000
DefaultOpenTimeout == 5000
DefaultMinFailed == 15
DefaultPercentFailed == 50

constructor(opts) ==
    [halfTimeout   |-> OrDefault(opts.halfTimeout, DefaultHalfTimeout),
     openTimeout   |-> OrDefault(opts.openTimeout, DefaultOpenTimeout),
     minFailed     |-> OrDefault(opts.minFailed, DefaultMinFailed),
     percentFailed |-> OrDefault(opts.percentFailed, DefaultPercentFailed)]

(* The options of the demonstration harness: { minFailed: 2, halfTimeout: 5000 } *)
DemoOpts ==
    [halfTimeout |-> Num(5000), openTimeout |-> Undefined,
     minFailed |-> Num(2), percentFailed |-> Undefined]

(* The option records the breakers of the model are constructed with. *)
OptsSet ==
    {DemoOpts} \cup
    [halfTimeout : {Num(2)}, openTimeout : {Num(3)},
     minFailed : {Num(1), Num(2), Num(3)}, percentFailed : {Num(50), Num(100)}]

(* Values the stub guarded operation resolves / rejects with (index.ts). *)
Responses == {"Success"}
Errors == {"Failed"}

(***************************************************************************)
(* The mutable fields of the breaker as one record, so that the handlers   *)
(* are functions from the fields before to the fields after.               *)
(***************************************************************************)
this ==
    [state |-> state, openDateEnd |-> openDateEnd, halfDateEnd |-> halfDateEnd,
     failCount |-> failCount, successCount |-> successCount]

getInfo(b) ==
    [state |-> b.state, openDateEnd |-> DateOf(b.openDateEnd),
     halfDateEnd |-> DateOf(b.halfDateEnd)]

reset(b) ==
    [b EXCEPT !.successCount = 0, !.failCount = 0, !.halfDateEnd = Undefined]

(* Mutant: the open window is computed from the half-open timeout. *)
setOpenDate_halfTimeout(b, t) == [b EXCEPT !.openDateEnd = Num(t + options.halfTimeout)]

setOpenDate(b, t) == [b EXCEPT !.openDateEnd = Num(t + options.openTimeout)]

setHalfDate(b, t) == [b EXCEPT !.halfDateEnd = Num(t + options.halfTimeout)]

(* failCount * 100 / (failCount + successCount) >= percentFailed.  The     *)
(* quotient is a floating-point number in the source; the comparison is    *)
(* made here on the cross product, which is exact.                         *)
FailRateReaches(b, percent) ==
    b.failCount * 100 >= percent * (b.failCount + b.successCount)

(***************************************************************************)
(* success(response): a switch without break, so that the HALF case runs   *)
(* into the OPENED case, and the OPENED case into the CLOSED case.         *)
(***************************************************************************)
successCaseHALF(b, t) ==
    LET b1 == [b EXCEPT !.successCount = @ + 1]
    IN  IF Ge(t, b1.halfDateEnd)
        THEN reset([b1 EXCEPT !.state = CLOSED])
        ELSE b1

successCaseOPENED(b, t) ==
    setHalfDate([b EXCEPT !.successCount = 1, !.state = HALF], t)

(* Mutant: a success is counted twice. *)
successCaseCLOSED_counts2(b) == [b EXCEPT !.successCount = @ + 2]

successCaseCLOSED(b) == [b EXCEPT !.successCount = @ + 1]

success(b, t) ==
    IF b.state = HALF
    THEN successCaseCLOSED(successCaseOPENED(successCaseHALF(b, t), t))
    ELSE IF b.state = OPENED
    THEN successCaseCLOSED(successCaseOPENED(b, t))
    ELSE successCaseCLOSED(b)

(***************************************************************************)
(* fail(e, args): the fields after, and whether the handler returns e      *)
(* (returns = TRUE) or runs off the end of the switch and returns          *)
(* undefined (returns = FALSE).                                            *)
(***************************************************************************)
(* Mutant: the circuit opens without the counters being reset. *)
failCaseHALF_noReset(b, t) ==
    LET b1 == [b EXCEPT !.failCount = @ + 1]
    IN  IF Gt(t, b1.halfDateEnd)
        THEN [this |-> setHalfDate([reset(b1) EXCEPT !.failCount = 1], t),
              returns |-> TRUE]
        ELSE IF b1.failCount >= options.minFailed
        THEN IF FailRateReaches(b1, options.percentFailed)
             THEN [this |-> setOpenDate([b1 EXCEPT !.state = OPENED], t),
                   returns |-> TRUE]
             ELSE [this |-> setHalfDate([reset(b1) EXCEPT !.failCount = 1], t),
                   returns |-> TRUE]
        ELSE [this |-> b1, returns |-> FALSE]

(* Mutant: on expiry the new window is set before reset() clears it. *)
failCaseHALF_resetLast(b, t) ==
    LET b1 == [b EXCEPT !.failCount = @ + 1]
    IN  IF Gt(t, b1.halfDateEnd)
        THEN [this |-> [reset(setHalfDate(b1, t)) EXCEPT !.failCount = 1],
              returns |-> TRUE]
        ELSE IF b1.failCount >= options.minFailed
        THEN IF FailRateReaches(b1, options.percentFailed)
             THEN [this |-> setOpenDate(reset([b1 EXCEPT !.state = OPENED]), t),
                   returns |-> TRUE]
             ELSE [this |-> setHalfDate([reset(b1) EXCEPT !.failCount = 1], t),
                   returns |-> TRUE]
        ELSE [this |-> b1, returns |-> FALSE]

(* Mutant: when the rate is below the threshold the counts are kept. *)
failCaseHALF_keepsCounts(b, t) ==
    LET b1 == [b EXCEPT !.failCount = @ + 1]
    IN  IF Gt(t, b1.halfDateEnd)
        THEN [this |-> setHalfDate([reset(b1) EXCEPT !.failCount = 1], t),
              returns |-> TRUE]
        ELSE IF b1.failCount >= options.minFailed
        THEN IF FailRateReaches(b1, options.percentFailed)
             THEN [this |-> setOpenDate(reset([b1 EXCEPT !.state = OPENED]), t),
                   returns |-> TRUE]
             ELSE [this |-> setHalfDate(b1, t), returns |-> TRUE]
        ELSE [this |-> b1, returns |-> FALSE]

failCaseHALF(b, t) ==
    LET b1 == [b EXCEPT !.failCount = @ + 1]
    IN  IF Gt(t, b1.halfDateEnd)
        THEN [this |-> setHalfDate([reset(b1) EXCEPT !.failCount = 1], t),
              returns |-> TRUE]
        ELSE IF b1.failCount >= options.minFailed
        THEN IF FailRateReaches(b1, options.percentFailed)
             THEN [this |-> setOpenDate(reset([b1 EXCEPT !.state = OPENED]), t),
                   returns |-> TRUE]
             ELSE [this |-> setHalfDate([reset(b1) EXCEPT !.failCount = 1], t),
                   returns |-> TRUE]
        ELSE [this |-> b1, returns |-> FALSE]

(* Mutant: the first failure, reported in CLOSED, is not counted. *)
fail_firstNotCounted(b, t) ==
    IF b.state = OPENED
    THEN [this |-> setOpenDate(b, t), returns |-> TRUE]
    ELSE IF b.state = CLOSED
    THEN [this |-> setHalfDate([b EXCEPT !.failCount = 0, !.state = HALF], t),
          returns |-> TRUE]
    ELSE failCaseHALF(b, t)

fail(b, t) ==
    IF b.state = OPENED
    THEN [this |-> setOpenDate(b, t), returns |-> TRUE]
    ELSE IF b.state = CLOSED
    THEN [this |-> setHalfDate([b EXCEPT !.failCount = 1, !.state = HALF], t),
          returns |-> TRUE]
    ELSE failCaseHALF(b, t)

(***************************************************************************)
(* What a fire() call yields.                                              *)
(***************************************************************************)
NoReturn == [kind |-> "none", response |-> "", info |-> getInfo(
             [state |-> CLOSED, openDateEnd |-> Undefined, halfDateEnd |-> Undefined])]

CircuitOpen == [NoReturn EXCEPT !.kind = "CircuitOpen"]

ReturnValue(payload, info) ==
    [kind |-> "value", response |-> payload, info |-> info]

ReturnUndefined == [NoReturn EXCEPT !.kind = "undefined"]

(* Mutant: the comparison with openDateEnd the wrong way round. *)
FireRejects_inverted == state = OPENED /\ Gt(now, openDateEnd)

(* The admission test of fire(). *)
FireRejects == state = OPENED /\ Lt(now, openDateEnd)

(***************************************************************************)
(* Initial state: a freshly constructed breaker, at time 0.                *)
(***************************************************************************)
Init ==
    /\ options \in {constructor(o) : o \in OptsSet}
    /\ state = CLOSED
    /\ openDateEnd = Undefined
    /\ halfDateEnd = Undefined
    /\ failCount = 0
    /\ successCount = 0
    /\ now = 0
    /\ pending = 0
    /\ invocations = 0
    /\ lastReturn = NoReturn
    /\ history = <<>>

(***************************************************************************)
(* Option records as a caller may pass them, the invalid ones included:    *)
(* the constructor takes any number.                                       *)
(***************************************************************************)
OptsWide ==
    [halfTimeout : {Num(2), Num(-2)}, openTimeout : {Num(3), Num(0)},
     minFailed : {Num(2), Num(-1)}, percentFailed : {Num(50), Num(150)}]

InitWide ==
    /\ options \in {constructor(o) : o \in OptsWide}
    /\ state = CLOSED
    /\ openDateEnd = Undefined
    /\ halfDateEnd = Undefined
    /\ failCount = 0
    /\ successCount = 0
    /\ now = 0
    /\ pending = 0
    /\ invocations = 0
    /\ lastReturn = NoReturn
    /\ history = <<>>

SetThis(b) ==
    /\ state' = b.state
    /\ openDateEnd' = b.openDateEnd
    /\ halfDateEnd' = b.halfDateEnd
    /\ failCount' = b.failCount
    /\ successCount' = b.successCount

(* The clock advances. *)
Tick ==
    /\ now < MaxTime
    /\ now' = now + 1
    /\ UNCHANGED <<breakerVars, pending, invocations, lastReturn, history>>

(* Mutant: a rejected call restarts the open window. *)
FireReject_restart ==
    /\ FireRejects
    /\ lastReturn' = CircuitOpen
    /\ openDateEnd' = Num(now + options.openTimeout)
    /\ UNCHANGED <<options, state, halfDateEnd, failCount, successCount,
                   now, pending, invocations, history>>

(* fire(), first synchronous part, when the circuit is open: throws. *)
FireReject ==
    /\ FireRejects
    /\ lastReturn' = CircuitOpen
    /\ UNCHANGED <<breakerVars, now, pending, invocations, history>>

(* fire(), first synchronous part, otherwise: the guarded operation is     *)
(* invoked and the call waits for its promise.                             *)
FireAdmit ==
    /\ ~FireRejects
    /\ invocations < MaxCalls
    /\ pending < MaxInFlight
    /\ invocations' = invocations + 1
    /\ pending' = pending + 1
    /\ UNCHANGED <<breakerVars, now, lastReturn, history>>

(* The timer fail() starts: setOpenDate when it opens the circuit or finds *)
(* it open, setHalfDate when it enters HALF or restarts the window there,  *)
(* none when it only counts the failure.                                   *)
FailTimer(b, t) ==
    LET r == fail(b, t)
    IN  IF r.this.state = OPENED THEN "open"
        ELSE IF r.returns THEN "half"
        ELSE "none"

(* Mutant: getInfo() is read after the outcome has been applied. *)
Resolve_infoAfter(p) ==
    /\ pending > 0
    /\ pending' = pending - 1
    /\ SetThis(success(this, now))
    /\ lastReturn' = ReturnValue(p, getInfo(success(this, now)))
    /\ history' = Append(history, [ok |-> TRUE, at |-> now,
                                   timer |-> IF state = CLOSED THEN "none" ELSE "half"])
    /\ UNCHANGED <<options, now, invocations>>

(* fire(), after the await, the promise resolved with payload p. *)
Resolve(p) ==
    /\ pending > 0
    /\ pending' = pending - 1
    /\ SetThis(success(this, now))
    /\ lastReturn' = ReturnValue(p, getInfo(this))
    /\ history' = Append(history, [ok |-> TRUE, at |-> now,
                                   timer |-> IF state = CLOSED THEN "none" ELSE "half"])
    /\ UNCHANGED <<options, now, invocations>>

(* Mutant: a failed call is tried once more before it is reported. *)
Reject_retry(p) ==
    /\ pending > 0
    /\ invocations < MaxCalls
    /\ invocations' = invocations + 1
    /\ UNCHANGED <<breakerVars, now, pending, lastReturn, history>>

(* Mutant: a failure reported while another call is in flight is lost. *)
Reject_lostUpdate(p) ==
    /\ pending > 0
    /\ pending' = pending - 1
    /\ LET r == IF pending > 1 THEN [this |-> this, returns |-> TRUE]
                ELSE fail(this, now)
       IN  /\ SetThis(r.this)
           /\ lastReturn' = IF r.returns
                            THEN ReturnValue(p, getInfo(this))
                            ELSE ReturnUndefined
    /\ history' = Append(history, [ok |-> FALSE, at |-> now,
                                   timer |-> FailTimer(this, now)])
    /\ UNCHANGED <<options, now, invocations>>

(* fire(), after the await, the promise rejected with payload p. *)
Reject(p) ==
    /\ pending > 0
    /\ pending' = pending - 1
    /\ LET r == fail(this, now)
       IN  /\ SetThis(r.this)
           /\ lastReturn' = IF r.returns
                            THEN ReturnValue(p, getInfo(this))
                            ELSE ReturnUndefined
    /\ history' = Append(history, [ok |-> FALSE, at |-> now,
                                   timer |-> FailTimer(this, now)])
    /\ UNCHANGED <<options, now, invocations>>

(* Some call in flight settles. *)
OnResolve == \E p \in Responses : Resolve(p)

OnReject == \E p \in Errors : Reject(p)

Next ==
    \/ Tick
    \/ FireReject
    \/ FireAdmit
    \/ OnResolve
    \/ OnReject

Spec == Init /\ [][Next]_vars

(* The breaker constructed from any option record, then used as above. *)
SpecWide == InitWide /\ [][Next]_vars

(***************************************************************************)
(* Shorthands used by the properties.                                      *)
(***************************************************************************)
(* A fire() call is made (its first synchronous part runs). *)
FireCalled == FireReject \/ FireAdmit

(* The circuit is open and its window has not elapsed, read off the fields. *)
OpenWindowRunning == state = OPENED /\ openDateEnd.def /\ now < openDateEnd.val

(* This step rejected a call: CircuitOpen is thrown and no call is added.  *)
RejectedNow == lastReturn' = CircuitOpen /\ pending' = pending

(***************************************************************************)
(* C1 - Fast-fail: every fire call made while state = OPENED and           *)
(* now < openDateEnd leaves the invocation counter of the guarded          *)
(* operation unchanged and ends with the CircuitOpen rejection.            *)
(***************************************************************************)
C1_FastFail ==
    [][(OpenWindowRunning /\ FireCalled)
         => (invocations' = invocations /\ lastReturn' = CircuitOpen)]_vars

C1_Witness ==
    /\ OpenWindowRunning
    /\ lastReturn.kind = "CircuitOpen"
    /\ invocations >= 1

(***************************************************************************)
(* C6 - Idempotent admission: a fire call made while state = OPENED and    *)
(* now < openDateEnd rejects with CircuitOpen and leaves openDateEnd,      *)
(* state, halfDateEnd, failCount and successCount unchanged, so any number *)
(* of such calls does.                                                     *)
(***************************************************************************)
C6_IdempotentAdmission ==
    [][(OpenWindowRunning /\ FireCalled)
         => /\ RejectedNow
            /\ UNCHANGED <<openDateEnd, state, halfDateEnd, failCount, successCount>>]_vars

(* A rejection some time after the circuit opened, the window still running: *)
(* a further call is rejected again.                                         *)
C6_Witness ==
    /\ OpenWindowRunning
    /\ lastReturn.kind = "CircuitOpen"
    /\ openDateEnd.val - now < options.openTimeout

(***************************************************************************)
(* C8 - Admission and no retry: fire rejects with CircuitOpen if and only  *)
(* if state = OPENED and now < openDateEnd; otherwise the guarded          *)
(* operation is invoked exactly once for the call, and the settling of a   *)
(* call (resolved or rejected) never invokes it again: the number of       *)
(* invocations is the number of calls admitted, settled or in flight.      *)
(***************************************************************************)
C8_AdmissionNoRetry ==
    /\ [](invocations = Len(history) + pending)
    /\ [][/\ FireCalled =>
               IF OpenWindowRunning
               THEN RejectedNow /\ invocations' = invocations
               ELSE /\ invocations' = invocations + 1
                    /\ pending' = pending + 1
                    /\ lastReturn' = lastReturn
           /\ (OnResolve \/ OnReject) =>
               /\ invocations' = invocations
               /\ pending' = pending - 1]_vars

(* Failures have been reported and opened the circuit, the open window has *)
(* elapsed and an admitted call is in flight.                               *)
C8_Witness ==
    /\ state = OPENED
    /\ openDateEnd.def /\ now >= openDateEnd.val
    /\ pending > 0
    /\ Len(history) >= 2
    /\ ~history[Len(history)].ok
(***************************************************************************)
(* C2 - Recovery path: a success reported in HALF at now >= halfDateEnd    *)
(* brings the breaker back to CLOSED with failCount = 0 and                *)
(* successCount = 0.                                                       *)
(***************************************************************************)
C2_RecoveryPath ==
    [][(OnResolve /\ state = HALF /\ halfDateEnd.def /\ now >= halfDateEnd.val)
         => (state' = CLOSED /\ failCount' = 0 /\ successCount' = 0)]_vars

(***************************************************************************)
(* C3 - Re-open path: a failure reported in HALF at now < halfDateEnd,     *)
(* with which the failure count reaches minFailed and the failure ratio    *)
(* percentFailed, moves the breaker to OPENED with                         *)
(* openDateEnd = now + openTimeout and both counters 0.                    *)
(***************************************************************************)
C3_ReopenPath ==
    [][(/\ OnReject
        /\ state = HALF /\ halfDateEnd.def /\ now < halfDateEnd.val
        /\ failCount + 1 >= options.minFailed
        /\ (failCount + 1) * 100 >= options.percentFailed * (failCount + 1 + successCount))
         => /\ state' = OPENED
            /\ openDateEnd' = Num(now + options.openTimeout)
            /\ failCount' = 0
            /\ successCount' = 0]_vars

(* The circuit has just been opened by a failure reported in HALF inside   *)
(* the window.                                                              *)
C3_Witness ==
    /\ lastReturn.kind = "value"
    /\ lastReturn.response \in Errors
    /\ lastReturn.info.state = HALF
    /\ state = OPENED
    /\ openDateEnd = Num(now + options.openTimeout)
    /\ failCount = 0 /\ successCount = 0
    /\ Len(history) >= 2
    /\ ~history[Len(history)].ok
    /\ ~history[Len(history) - 1].ok
    /\ history[Len(history)].at = now
    /\ history[Len(history)].at < history[Len(history) - 1].at + options.halfTimeout

(***************************************************************************)
(* C4 - Scenario: on a fresh breaker with minFailed = n >= 2 and           *)
(* percentFailed = 50, n failures and no success, all reported inside the  *)
(* half-open window started by the first, leave the breaker in HALF after  *)
(* the first and up to the (n-1)-th, and in OPENED after the n-th; a fire  *)
(* made at the instant of the n-th report is rejected with CircuitOpen.    *)
(***************************************************************************)
ScenarioConfig == options.percentFailed = 50 /\ options.minFailed >= 2

(* Everything reported so far: k failures inside the first window. *)
FailedRun(k) ==
    /\ k >= 1
    /\ k = Len(history)
    /\ \A i \in 1..k :
          ~history[i].ok /\ history[i].at < history[1].at + options.halfTimeout

C4_Scenario ==
    /\ []((ScenarioConfig /\ FailedRun(Len(history)) /\ Len(history) <= options.minFailed)
            => state = IF Len(history) < options.minFailed THEN HALF ELSE OPENED)
    /\ [][(/\ ScenarioConfig
            /\ FailedRun(options.minFailed)
            /\ now = history[Len(history)].at
            /\ FireCalled)
             => (RejectedNow /\ invocations' = invocations)]_vars

C4_Witness ==
    /\ ScenarioConfig
    /\ FailedRun(options.minFailed)
    /\ now = history[Len(history)].at
    /\ state = OPENED
    /\ lastReturn.kind = "CircuitOpen"

(***************************************************************************)
(* C5 - Payload pass-through: the value an admitted fire call yields       *)
(* carries the value the guarded operation resolved or rejected with.      *)
(***************************************************************************)
C5_PayloadPassThrough ==
    [][/\ \A p \in Responses : Resolve(p) =>
              (lastReturn'.kind = "value" /\ lastReturn'.response = p)
       /\ \A p \in Errors : Reject(p) =>
              (lastReturn'.kind = "value" /\ lastReturn'.response = p)]_vars

(***************************************************************************)
(* C7 - Half-window expiry without decision: a failure reported in HALF at *)
(* now >= halfDateEnd keeps the state HALF and starts a fresh window:      *)
(* failCount = 1, successCount = 0, halfDateEnd = now + halfTimeout.       *)
(***************************************************************************)
C7_HalfWindowExpiry ==
    [][(OnReject /\ state = HALF /\ halfDateEnd.def /\ now >= halfDateEnd.val)
         => /\ state' = HALF
            /\ failCount' = 1
            /\ successCount' = 0
            /\ halfDateEnd' = Num(now + options.halfTimeout)]_vars

(***************************************************************************)
(* C9 - A success reported in OPENED at now >= openDateEnd moves the       *)
(* breaker to HALF with halfDateEnd = now + halfTimeout, failCount = 0 and *)
(* successCount = 0.                                                       *)
(***************************************************************************)
C9_ProbeSuccess ==
    [][(OnResolve /\ state = OPENED /\ openDateEnd.def /\ now >= openDateEnd.val)
         => /\ state' = HALF
            /\ halfDateEnd' = Num(now + options.halfTimeout)
            /\ failCount' = 0
            /\ successCount' = 0]_vars

OnlySuccesses == \A i \in 1..Len(history) : history[i].ok

C11_ClosedSuccess ==
    /\ [](OnlySuccesses => (state = CLOSED /\ successCount = Len(history)))
    /\ [][(OnResolve /\ state = CLOSED)
            => /\ state' = CLOSED
               /\ successCount' = successCount + 1
               /\ UNCHANGED <<failCount, openDateEnd, halfDateEnd>>]_vars

C11_Witness ==
    /\ Len(history) >= 2
    /\ OnlySuccesses
    /\ state = CLOSED
    /\ successCount = Len(history)
    /\ lastReturn.kind = "value"
    /\ lastReturn.info.state = CLOSED

(***************************************************************************)
(* C12 - Configuration validity: every constructed breaker has             *)
(* openTimeout > 0, halfTimeout > 0, minFailed > 0 and                     *)
(* 0 < percentFailed <= 100 (an option record outside these ranges         *)
(* produces no breaker).                                                   *)
(***************************************************************************)
C12_ValidConfiguration ==
    /\ options.openTimeout > 0
    /\ options.halfTimeout > 0
    /\ options.minFailed > 0
    /\ options.percentFailed > 0
    /\ options.percentFailed <= 100
(***************************************************************************)
(* C13 - Counters are reset with every state change: right after a         *)
(* transition that changes the state, successCount = 0 and failCount = 0,  *)
(* or failCount = 1 when the transition is the failure that leaves CLOSED  *)
(* for HALF.                                                               *)
(***************************************************************************)
C13_CountersResetOnTransition ==
    [][(state' # state)
         => /\ successCount' = 0
            /\ failCount' = IF state = CLOSED THEN 1 ELSE 0]_vars

(***************************************************************************)
(* C14 - Failure ratio base: when fail() evaluates the failure rate in     *)
(* HALF, failCount is the number of failures and successCount the number   *)
(* of successes reported since the current half-open window was started.   *)
(* The window is started by the last report whose handler set halfDateEnd; *)
(* a failure that starts it is its first failure, a success that starts it *)
(* is not one of its outcomes.                                             *)
(***************************************************************************)
WindowStart(h) ==
    LET S == {j \in 1..Len(h) : h[j].timer = "half"}
    IN  IF S = {} THEN 0 ELSE CHOOSE j \in S : \A k \in S : k <= j

FailuresSince(h, w) == Cardinality({j \in 1..Len(h) : j >= w /\ ~h[j].ok})

SuccessesSince(h, w) == Cardinality({j \in 1..Len(h) : j > w /\ h[j].ok})

(* fail() reaches getFailRate(): HALF, window not expired, minFailed reached. *)
RateEvaluated ==
    /\ OnReject
    /\ state = HALF
    /\ ~(halfDateEnd.def /\ now > halfDateEnd.val)
    /\ failCount + 1 >= options.minFailed

C14_FailureRatioBase ==
    [][RateEvaluated
         => /\ WindowStart(history) >= 1
            /\ failCount + 1 = FailuresSince(history', WindowStart(history))
            /\ successCount = SuccessesSince(history', WindowStart(history))]_vars

(***************************************************************************)
(* C15 - A success reported in HALF at now < halfDateEnd keeps the state   *)
(* HALF, increments successCount by exactly 1 and leaves halfDateEnd,      *)
(* failCount and openDateEnd unchanged.                                    *)
(***************************************************************************)
C15_HalfSuccessInWindow ==
    [][(OnResolve /\ state = HALF /\ halfDateEnd.def /\ now < halfDateEnd.val)
         => /\ state' = HALF
            /\ successCount' = successCount + 1
            /\ UNCHANGED <<halfDateEnd, failCount, openDateEnd>>]_vars
(***************************************************************************)
(* C16 - Deadline invariants: in every reachable state, state = OPENED     *)
(* implies openDateEnd is a number, the instant of the last report that    *)
(* opened the circuit or restarted its window plus openTimeout, and        *)
(* state = HALF implies halfDateEnd is a number, the instant of the last   *)
(* report that started the half-open window plus halfTimeout.              *)
(***************************************************************************)
LastOpen(h) ==
    LET S == {j \in 1..Len(h) : h[j].timer = "open"}
    IN  IF S = {} THEN 0 ELSE CHOOSE j \in S : \A k \in S : k <= j

C16_DeadlineInvariants ==
    /\ state = OPENED =>
         /\ openDateEnd.def
         /\ LastOpen(history) >= 1
         /\ openDateEnd.val = history[LastOpen(history)].at + options.openTimeout
    /\ state = HALF =>
         /\ halfDateEnd.def
         /\ WindowStart(history) >= 1
         /\ halfDateEnd.val = history[WindowStart(history)].at + options.halfTimeout

(* A failure found the window expired: fail() called reset(), which clears *)
(* halfDateEnd, and then started the next window.                          *)
C16_Witness ==
    /\ lastReturn.kind = "value"
    /\ lastReturn.response \in Errors
    /\ lastReturn.info.state = HALF
    /\ lastReturn.info.halfDateEnd < now
    /\ history # <<>>
    /\ history[Len(history)].at = now
    /\ state = HALF
    /\ halfDateEnd = Num(now + options.halfTimeout)
(***************************************************************************)
(* C17 - No lost failure under concurrency: whatever calls were in flight  *)
(* together and in whatever order their outcomes were reported, the state, *)
(* the counters and the deadlines are those produced by reporting the same *)
(* outcomes one after the other, at the same instants, on a fresh breaker; *)
(* in particular for two calls in flight together that both fail.          *)
(***************************************************************************)
Fresh ==
    [state |-> CLOSED, openDateEnd |-> Undefined, halfDateEnd |-> Undefined,
     failCount |-> 0, successCount |-> 0]

RECURSIVE Sequential(_)
Sequential(h) ==
    IF h = <<>> THEN Fresh
    ELSE LET b == Sequential(SubSeq(h, 1, Len(h) - 1))
             e == h[Len(h)]
         IN  IF e.ok THEN success(b, e.at) ELSE fail(b, e.at).this

C18_OpenWindowStable ==
    [][(OpenWindowRunning /\ (OnResolve \/ OnReject))
         => (state' = OPENED /\ openDateEnd' = openDateEnd)]_vars

(***************************************************************************)
(* C19 - A failure reported in HALF at now < halfDateEnd with which the    *)
(* failure count reaches minFailed while the failure rate stays below      *)
(* percentFailed keeps the state HALF and restarts the window              *)
(* (failCount = 1, successCount = 0, halfDateEnd = now + halfTimeout,      *)
(* openDateEnd unchanged); one that leaves the count below minFailed keeps *)
(* the state HALF and only increments failCount.                           *)
(***************************************************************************)
C19_HalfFailureNoOpen ==
    [][(OnReject /\ state = HALF /\ halfDateEnd.def /\ now < halfDateEnd.val)
         => /\ (/\ failCount + 1 >= options.minFailed
                /\ (failCount + 1) * 100
                     < options.percentFailed * (failCount + 1 + successCount))
               => /\ state' = HALF
                  /\ failCount' = 1
                  /\ successCount' = 0
                  /\ halfDateEnd' = Num(now + options.halfTimeout)
                  /\ openDateEnd' = openDateEnd
            /\ (failCount + 1 < options.minFailed)
               => /\ state' = HALF
                  /\ failCount' = failCount + 1
                  /\ UNCHANGED <<successCount, halfDateEnd, openDateEnd>>]_vars

(* The window has just been restarted by a failure reported while it was   *)
(* running, after an earlier failure of the same window was only counted.  *)
C19_Witness ==
    /\ lastReturn.kind = "value"
    /\ lastReturn.response \in Errors
    /\ lastReturn.info.state = HALF
    /\ lastReturn.info.halfDateEnd > now
    /\ Len(history) >= 3
    /\ history[Len(history)].at = now
    /\ history[Len(history)].timer = "half"
    /\ ~history[Len(history) - 1].ok
    /\ history[Len(history) - 1].timer = "none"
    /\ state = HALF
    /\ failCount = 1
    /\ successCount = 0
    /\ halfDateEnd = Num(now + options.halfTimeout)

(***************************************************************************)
(* C20 - Snapshot timing: the state, openDateEnd and halfDateEnd in the    *)
(* value fire returns for an admitted call are those of the breaker just   *)
(* before the outcome of the call is applied (an unset deadline reads as   *)
(* the instant 0).                                                         *)
(***************************************************************************)
C20_SnapshotBefore ==
    [][((OnResolve \/ OnReject) /\ lastReturn'.kind = "value")
         => /\ lastReturn'.info.state = state
            /\ lastReturn'.info.openDateEnd =
                 (IF openDateEnd.def THEN openDateEnd.val ELSE 0)
            /\ lastReturn'.info.halfDateEnd =
                 (IF halfDateEnd.def THEN halfDateEnd.val ELSE 0)]_vars

(* A returned snapshot that differs from the breaker the call left behind: *)
(* the probe that succeeded reports OPENED and no half-open deadline.      *)
C20_Witness ==
    /\ lastReturn.kind = "value"
    /\ lastReturn.response \in Responses
    /\ lastReturn.info.state = OPENED
    /\ lastReturn.info.halfDateEnd = 0
    /\ state = HALF
    /\ halfDateEnd = Num(now + options.halfTimeout)
====
